---- MODULE Spec2Model ----
(***************************************************************************)
(* Modified nodal analysis assembly (old_src/mna.rs).                      *)
(*                                                                         *)
(* Mna owns a MnaMatrix (two dimension counters and four sparse blocks)    *)
(* and a MnaRhs (two sparse columns).  add_element_stamp dispatches on the *)
(* component kind to the stamp methods of the two builders; get_system     *)
(* consumes both and returns the assembled matrix and vector.              *)
(*                                                                         *)
(* Scalars: the code computes in f64.  The model computes in exact         *)
(* rationals <<numerator, denominator>> in lowest terms, so 1.0 / r is a   *)
(* real reciprocal and not the identity; f64 rounding is not modelled.     *)
(*                                                                         *)
(* A panic! leaves the builders as they were when it was raised; the       *)
(* model records its message in err and stops the run (pc = "panicked").   *)
(***************************************************************************)
EXTENDS Integers, Sequences, FiniteSets, TLC

\* ------------------------------------------------------------------------
\* Bounds
\* ------------------------------------------------------------------------
MaxNode == 2       \* node indices are drawn from 0..MaxNode (0 is ground)
MaxEdge == 1       \* branch indices are drawn from 0..MaxEdge
MaxStamps == 2     \* stamp calls in one run of the matrix builder or of a nodal circuit
MaxElements == 1   \* components in one run over every component kind

Nodes == 0..MaxNode
Edges == 0..MaxEdge
\* the control terminals of a voltage-controlled source
CtrlNodes == 0..(MaxNode - 1)

\* ------------------------------------------------------------------------
\* Exact scalars
\* ------------------------------------------------------------------------
Abs(x) == IF x < 0 THEN -x ELSE x

RECURSIVE Gcd(_, _)
Gcd(a, b) == IF b = 0 THEN a ELSE Gcd(b, a % b)

\* n/d in lowest terms with a positive denominator (d # 0)
Rat(n, d) ==
    LET g == Gcd(Abs(n), Abs(d))
        s == IF d < 0 THEN -1 ELSE 1
    IN  << (s * n) \div g, (s * d) \div g >>

Num(n) == << n, 1 >>
Zero == Num(0)
One == Num(1)
RAdd(a, b) == Rat(a[1] * b[2] + b[1] * a[2], a[2] * b[2])
RNeg(a) == << -a[1], a[2] >>
\* a / b, b # 0
RDiv(a, b) == Rat(a[1] * b[2], a[2] * b[1])

\* ------------------------------------------------------------------------
\* SparseMat (csuperlu): a finite map from <<row, col>> to a scalar
\* ------------------------------------------------------------------------
SparseEmpty == [k \in {} |-> Zero]

get_unbounded(mat, row, col) ==
    IF << row, col >> \in DOMAIN mat THEN mat[<< row, col >>] ELSE Zero

insert_unbounded(mat, row, col, val) ==
    [k \in (DOMAIN mat) \cup {<< row, col >>} |->
        IF k = << row, col >> THEN val ELSE mat[k]]

\* the stored entries, as the set of <<row, col>> keys
non_zero_vals(mat) == DOMAIN mat

\* Faulty variant: the cell is overwritten instead of accumulated
plus_equals_overwrite(mat, row, col, val) ==
    insert_unbounded(mat, row, col, val)

plus_equals(mat, row, col, val) ==
    LET old_val == get_unbounded(mat, row, col)
    IN  insert_unbounded(mat, row, col, RAdd(old_val, val))

\* ------------------------------------------------------------------------
\* MnaMatrix
\* ------------------------------------------------------------------------
MnaMatrix_new ==
    [num_voltage_nodes |-> 0,
     num_current_edges |-> 0,
     top_left |-> SparseEmpty,
     top_right |-> SparseEmpty,
     bottom_left |-> SparseEmpty,
     bottom_right |-> SparseEmpty]

Max(a, b) == IF a >= b THEN a ELSE b

\* Faulty variant: the count is assigned, not raised to the maximum
update_num_voltage_nodes_assigned(m, n) ==
    [m EXCEPT !.num_voltage_nodes = n]

update_num_voltage_nodes(m, n) ==
    [m EXCEPT !.num_voltage_nodes = Max(m.num_voltage_nodes, n)]

\* Faulty variant: the count is taken to be the branch index itself
update_num_current_edges_off_by_one(m, e) ==
    [m EXCEPT !.num_current_edges = Max(m.num_current_edges, e)]

update_num_current_edges(m, e) ==
    [m EXCEPT !.num_current_edges = Max(m.num_current_edges, e + 1)]

\* The result of a stamp method: the builder afterwards and the panic
\* message ("" when the method returned).
Returned(m) == [m |-> m, err |-> ""]
Panicked(m, msg) == [m |-> m, err |-> msg]

\* Faulty variant: no ground elision, the four cells are written whatever n1 and n2
add_symmetric_group1_no_elision(m, n1, n2, x1, x2) ==
    IF n1 = n2 THEN
        Panicked(m, "Cannot set symmetric group 1 where n1 == n2")
    ELSE
        LET m1 == update_num_voltage_nodes(m, n1)
            m2 == update_num_voltage_nodes(m1, n2)
            a == plus_equals(m2.top_left, n1 - 1, n1 - 1, x1)
            b == plus_equals(a, n2 - 1, n2 - 1, x1)
            c == plus_equals(b, n1 - 1, n2 - 1, x2)
            d == plus_equals(c, n2 - 1, n1 - 1, x2)
        IN  Returned([m2 EXCEPT !.top_left = d])

\* Faulty variant: the off-diagonal value is written twice at (n1-1, n2-1) and never
\* at (n2-1, n1-1)
add_symmetric_group1_not_mirrored(m, n1, n2, x1, x2) ==
    IF n1 = n2 THEN
        Panicked(m, "Cannot set symmetric group 1 where n1 == n2")
    ELSE
        LET m1 == update_num_voltage_nodes(m, n1)
            m2 == update_num_voltage_nodes(m1, n2)
        IN  IF n1 = 0 THEN
                Returned([m2 EXCEPT !.top_left =
                    plus_equals(m2.top_left, n2 - 1, n2 - 1, x1)])
            ELSE IF n2 = 0 THEN
                Returned([m2 EXCEPT !.top_left =
                    plus_equals(m2.top_left, n1 - 1, n1 - 1, x1)])
            ELSE
                LET a == plus_equals(m2.top_left, n1 - 1, n1 - 1, x1)
                    b == plus_equals(a, n2 - 1, n2 - 1, x1)
                    c == plus_equals(b, n1 - 1, n2 - 1, x2)
                    d == plus_equals(c, n1 - 1, n2 - 1, x2)
                IN  Returned([m2 EXCEPT !.top_left = d])

add_symmetric_group1(m, n1, n2, x1, x2) ==
    IF n1 = n2 THEN
        Panicked(m, "Cannot set symmetric group 1 where n1 == n2")
    ELSE
        LET m1 == update_num_voltage_nodes(m, n1)
            m2 == update_num_voltage_nodes(m1, n2)
        IN  IF n1 = 0 THEN
                Returned([m2 EXCEPT !.top_left =
                    plus_equals(m2.top_left, n2 - 1, n2 - 1, x1)])
            ELSE IF n2 = 0 THEN
                Returned([m2 EXCEPT !.top_left =
                    plus_equals(m2.top_left, n1 - 1, n1 - 1, x1)])
            ELSE
                LET a == plus_equals(m2.top_left, n1 - 1, n1 - 1, x1)
                    b == plus_equals(a, n2 - 1, n2 - 1, x1)
                    c == plus_equals(b, n1 - 1, n2 - 1, x2)
                    d == plus_equals(c, n2 - 1, n1 - 1, x2)
                IN  Returned([m2 EXCEPT !.top_left = d])

\* the three dimension updates shared by the group-2 stamps
Grow2(m, n1, n2, e) ==
    update_num_current_edges(
        update_num_voltage_nodes(update_num_voltage_nodes(m, n1), n2), e)

\* Faulty variant: in the bottom-left block x2 lands in n1's column
add_symmetric_group2_bottom_misplaced(m, n1, n2, e, x1, x2, y) ==
    IF n1 = n2 THEN
        Panicked(m, "Cannot set symmetric group 2 where n1 == n2")
    ELSE
        LET m0 == Grow2(m, n1, n2, e)
            m1 == [m0 EXCEPT !.bottom_right =
                       plus_equals(m0.bottom_right, e, e, y)]
            m2 == IF n1 # 0
                  THEN [m1 EXCEPT
                          !.top_right = plus_equals(m1.top_right, n1 - 1, e, x1),
                          !.bottom_left = plus_equals(m1.bottom_left, e, n1 - 1, x1)]
                  ELSE m1
            m3 == IF n2 # 0 /\ n1 # 0
                  THEN [m2 EXCEPT
                          !.top_right = plus_equals(m2.top_right, n2 - 1, e, x2),
                          !.bottom_left = plus_equals(m2.bottom_left, e, n1 - 1, x2)]
                  ELSE IF n2 # 0
                  THEN [m2 EXCEPT
                          !.top_right = plus_equals(m2.top_right, n2 - 1, e, x2),
                          !.bottom_left = plus_equals(m2.bottom_left, e, n2 - 1, x2)]
                  ELSE m2
        IN  Returned(m3)

\* Faulty variant: y is never added to bottom-right (e, e)
add_symmetric_group2_diag_dropped(m, n1, n2, e, x1, x2, y) ==
    IF n1 = n2 THEN
        Panicked(m, "Cannot set symmetric group 2 where n1 == n2")
    ELSE
        LET m1 == Grow2(m, n1, n2, e)
            m2 == IF n1 # 0
                  THEN [m1 EXCEPT
                          !.top_right = plus_equals(m1.top_right, n1 - 1, e, x1),
                          !.bottom_left = plus_equals(m1.bottom_left, e, n1 - 1, x1)]
                  ELSE m1
            m3 == IF n2 # 0
                  THEN [m2 EXCEPT
                          !.top_right = plus_equals(m2.top_right, n2 - 1, e, x2),
                          !.bottom_left = plus_equals(m2.bottom_left, e, n2 - 1, x2)]
                  ELSE m2
        IN  Returned(m3)

add_symmetric_group2(m, n1, n2, e, x1, x2, y) ==
    IF n1 = n2 THEN
        Panicked(m, "Cannot set symmetric group 2 where n1 == n2")
    ELSE
        LET m0 == Grow2(m, n1, n2, e)
            m1 == [m0 EXCEPT !.bottom_right =
                       plus_equals(m0.bottom_right, e, e, y)]
            m2 == IF n1 # 0
                  THEN [m1 EXCEPT
                          !.top_right = plus_equals(m1.top_right, n1 - 1, e, x1),
                          !.bottom_left = plus_equals(m1.bottom_left, e, n1 - 1, x1)]
                  ELSE m1
            m3 == IF n2 # 0
                  THEN [m2 EXCEPT
                          !.top_right = plus_equals(m2.top_right, n2 - 1, e, x2),
                          !.bottom_left = plus_equals(m2.bottom_left, e, n2 - 1, x2)]
                  ELSE m2
        IN  Returned(m3)

\* Faulty variant: the bottom-left cells are written as well, as by the
\* symmetric stamp
add_unsymmetric_right_group2_both_sides(m, n1, n2, e, x1, x2, y) ==
    add_symmetric_group2(m, n1, n2, e, x1, x2, y)

add_unsymmetric_right_group2(m, n1, n2, e, x1, x2, y) ==
    IF n1 = n2 THEN
        Panicked(m, "Cannot set unsymmetric group (right) 2 where n1 == n2")
    ELSE
        LET m0 == Grow2(m, n1, n2, e)
            m1 == [m0 EXCEPT !.bottom_right =
                       plus_equals(m0.bottom_right, e, e, y)]
            m2 == IF n1 # 0
                  THEN [m1 EXCEPT
                          !.top_right = plus_equals(m1.top_right, n1 - 1, e, x1)]
                  ELSE m1
            m3 == IF n2 # 0
                  THEN [m2 EXCEPT
                          !.top_right = plus_equals(m2.top_right, n2 - 1, e, x2)]
                  ELSE m2
        IN  Returned(m3)

\* Faulty variant: the counters grow before the terminals are compared
add_unsymmetric_bottom_group2_grow_first(m, n1, n2, e, x1, x2, y) ==
    LET m0 == Grow2(m, n1, n2, e)
    IN  IF n1 = n2 THEN
            Panicked(m0, "Cannot set unsymmetric group (bottom) 2 where n1 == n2")
        ELSE
            LET m1 == [m0 EXCEPT !.bottom_right =
                           plus_equals(m0.bottom_right, e, e, y)]
                m2 == IF n1 # 0
                      THEN [m1 EXCEPT
                              !.bottom_left = plus_equals(m1.bottom_left, e, n1 - 1, x1)]
                      ELSE m1
                m3 == IF n2 # 0
                      THEN [m2 EXCEPT
                              !.bottom_left = plus_equals(m2.bottom_left, e, n2 - 1, x2)]
                      ELSE m2
            IN  Returned(m3)

add_unsymmetric_bottom_group2(m, n1, n2, e, x1, x2, y) ==
    IF n1 = n2 THEN
        Panicked(m, "Cannot set unsymmetric group (bottom) 2 where n1 == n2")
    ELSE
        LET m0 == Grow2(m, n1, n2, e)
            m1 == [m0 EXCEPT !.bottom_right =
                       plus_equals(m0.bottom_right, e, e, y)]
            m2 == IF n1 # 0
                  THEN [m1 EXCEPT
                          !.bottom_left = plus_equals(m1.bottom_left, e, n1 - 1, x1)]
                  ELSE m1
            m3 == IF n2 # 0
                  THEN [m2 EXCEPT
                          !.bottom_left = plus_equals(m2.bottom_left, e, n2 - 1, x2)]
                  ELSE m2
        IN  Returned(m3)

add_group2_value(m, e1, e2, y) ==
    LET m0 == update_num_current_edges(update_num_current_edges(m, e1), e2)
    IN  Returned([m0 EXCEPT !.bottom_right =
                      plus_equals(m0.bottom_right, e1, e2, y)])

\* A sized matrix, as SparseMat is after resize: dimensions and entries.
\* resize keeps the entries that are in bounds.
resize(mat, rows, cols) ==
    [num_rows |-> rows,
     num_cols |-> cols,
     vals |-> [k \in {j \in DOMAIN mat : j[1] < rows /\ j[2] < cols} |-> mat[k]]]

\* a to the left of b
concat_horizontal(a, b) ==
    LET shifted == {<< k[1], k[2] + a.num_cols >> : k \in DOMAIN b.vals}
    IN  [num_rows |-> a.num_rows,
         num_cols |-> a.num_cols + b.num_cols,
         vals |-> [k \in (DOMAIN a.vals) \cup shifted |->
                     IF k \in DOMAIN a.vals THEN a.vals[k]
                     ELSE b.vals[<< k[1], k[2] - a.num_cols >>]]]

\* a above b
concat_vertical(a, b) ==
    LET shifted == {<< k[1] + a.num_rows, k[2] >> : k \in DOMAIN b.vals}
    IN  [num_rows |-> a.num_rows + b.num_rows,
         num_cols |-> a.num_cols,
         vals |-> [k \in (DOMAIN a.vals) \cup shifted |->
                     IF k \in DOMAIN a.vals THEN a.vals[k]
                     ELSE b.vals[<< k[1] - a.num_rows, k[2] >>]]]

\* Faulty variant: the two coupling blocks are resized with each other's
\* dimensions
get_matrix_coupling_dims_exchanged(m) ==
    LET tl == resize(m.top_left, m.num_voltage_nodes, m.num_voltage_nodes)
        br == resize(m.bottom_right, m.num_current_edges, m.num_current_edges)
        tr == resize(m.top_right, m.num_current_edges, m.num_voltage_nodes)
        bl == resize(m.bottom_left, m.num_voltage_nodes, m.num_current_edges)
        top == concat_horizontal(tl, tr)
        bottom == concat_horizontal(bl, br)
    IN  concat_vertical(top, bottom)

get_matrix(m) ==
    LET tl == resize(m.top_left, m.num_voltage_nodes, m.num_voltage_nodes)
        br == resize(m.bottom_right, m.num_current_edges, m.num_current_edges)
        tr == resize(m.top_right, m.num_voltage_nodes, m.num_current_edges)
        bl == resize(m.bottom_left, m.num_current_edges, m.num_voltage_nodes)
        top == concat_horizontal(tl, tr)
        bottom == concat_horizontal(bl, br)
    IN  concat_vertical(top, bottom)

\* the value of a sized matrix at (row, col)
Cell(sm, row, col) == get_unbounded(sm.vals, row, col)

\* ------------------------------------------------------------------------
\* MnaRhs
\* ------------------------------------------------------------------------
MnaRhs_new == [top |-> SparseEmpty, bottom |-> SparseEmpty]

add_rhs_group1(r, n, x) ==
    IF n # 0 THEN [r EXCEPT !.top = insert_unbounded(r.top, n - 1, 1, x)]
    ELSE r

\* Faulty variant: the entry is accumulated, as the matrix stamps do
add_rhs_group2_accumulating(r, e, x) ==
    [r EXCEPT !.bottom = plus_equals(r.bottom, e, 1, x)]

add_rhs_group2(r, e, x) ==
    [r EXCEPT !.bottom = insert_unbounded(r.bottom, e, 1, x)]

\* out[i] is element i + 1 of the sequence.  The first loop writes every
\* stored entry of top at its row, the second every stored entry of bottom
\* at num_voltage_nodes + row; an index at or beyond the length panics.
\* (Both columns only ever hold entries in column 1, so a row names at
\* most one entry and the iteration order within a loop is immaterial.)
get_vector(r, num_voltage_nodes, num_current_edges) ==
    LET len == num_voltage_nodes + num_current_edges
        top_rows == {k[1] : k \in non_zero_vals(r.top)}
        bottom_rows == {k[1] : k \in non_zero_vals(r.bottom)}
        top_val(i) == r.top[CHOOSE k \in non_zero_vals(r.top) : k[1] = i]
        bottom_val(i) == r.bottom[CHOOSE k \in non_zero_vals(r.bottom) : k[1] = i]
        out == [j \in 1..len |->
                  LET i == j - 1
                  IN  IF (i - num_voltage_nodes) \in bottom_rows
                      THEN bottom_val(i - num_voltage_nodes)
                      ELSE IF i \in top_rows THEN top_val(i)
                      ELSE Zero]
    IN  IF \E i \in top_rows : i >= len THEN
            [out |-> << >>, err |-> "index out of bounds"]
        ELSE IF \E i \in bottom_rows : num_voltage_nodes + i >= len THEN
            [out |-> << >>, err |-> "index out of bounds"]
        ELSE [out |-> out, err |-> ""]

\* ------------------------------------------------------------------------
\* Component descriptors
\* ------------------------------------------------------------------------
None == << >>
Some(e) == << e >>
OptEdges == {None} \cup {Some(e) : e \in Edges}

Resistances == {Num(1), Num(2)}
Voltages == {Num(5)}
Currents == {Num(3), Num(4)}
Scales == {Num(2)}

Resistor(t1, t2, ci, r) ==
    [kind |-> "Resistor", term_1 |-> t1, term_2 |-> t2,
     current_index |-> ci, resistance |-> r]

IndependentVoltageSource(p, n, ci, v) ==
    [kind |-> "IndependentVoltageSource", term_pos |-> p, term_neg |-> n,
     current_index |-> ci, voltage |-> v]

VoltageControlledVoltageSource(p, n, cp, cn, ci, k) ==
    [kind |-> "VoltageControlledVoltageSource", term_pos |-> p, term_neg |-> n,
     ctrl_pos |-> cp, ctrl_neg |-> cn, current_index |-> ci, voltage_scale |-> k]

CurrentControlledVoltageSource(p, n, ce, ci, k) ==
    [kind |-> "CurrentControlledVoltageSource", term_pos |-> p, term_neg |-> n,
     ctrl_edge |-> ce, current_index |-> ci, voltage_scale |-> k]

IndependentCurrentSource(p, n, ci, i) ==
    [kind |-> "IndependentCurrentSource", term_pos |-> p, term_neg |-> n,
     current_index |-> ci, current |-> i]

\* any Component variant without a stamp rule
OtherComponent == [kind |-> "Other"]

Components ==
    {Resistor(t1, t2, ci, r) :
        t1 \in Nodes, t2 \in Nodes, ci \in OptEdges, r \in Resistances}
    \cup {IndependentVoltageSource(p, n, ci, v) :
        p \in Nodes, n \in Nodes, ci \in Edges, v \in Voltages}
    \cup {VoltageControlledVoltageSource(p, n, cp, cn, ci, k) :
        p \in Nodes, n \in Nodes, cp \in CtrlNodes, cn \in CtrlNodes,
        ci \in Edges, k \in Scales}
    \cup {CurrentControlledVoltageSource(p, n, ce, ci, k) :
        p \in Nodes, n \in Nodes, ce \in Edges, ci \in Edges, k \in Scales}
    \cup {IndependentCurrentSource(p, n, ci, i) :
        p \in Nodes, n \in Nodes, ci \in OptEdges, i \in Currents}
    \cup {OtherComponent}

\* the components of pure nodal analysis (no branch unknown), and the rest
NodalComponents ==
    {Resistor(t1, t2, None, r) : t1 \in Nodes, t2 \in Nodes, r \in Resistances}
    \cup {IndependentCurrentSource(p, n, None, i) :
        p \in Nodes, n \in Nodes, i \in Currents}
    \cup {OtherComponent}

\* ------------------------------------------------------------------------
\* Mna
\* ------------------------------------------------------------------------
Mna_new == [matrix |-> MnaMatrix_new, rhs |-> MnaRhs_new]

\* The result of add_element_stamp: both builders afterwards and the panic
\* message ("" when it returned).
Done(mat, r) == [matrix |-> mat, rhs |-> r, err |-> ""]
\* a matrix stamp result s, followed by the rhs builder r when s returned
After(s, r_then, r_else) ==
    [matrix |-> s.m, rhs |-> IF s.err = "" THEN r_then ELSE r_else, err |-> s.err]

\* the arms of the match in add_element_stamp
stamp_resistor(mna, c) ==
    IF c.current_index # None THEN
        After(add_symmetric_group2(mna.matrix, c.term_1, c.term_2,
                  c.current_index[1], One, RNeg(One), RNeg(c.resistance)),
              mna.rhs, mna.rhs)
    ELSE
        After(add_symmetric_group1(mna.matrix, c.term_1, c.term_2,
                  RDiv(One, c.resistance), RDiv(RNeg(One), c.resistance)),
              mna.rhs, mna.rhs)

stamp_independent_voltage_source(mna, c) ==
    After(add_symmetric_group2(mna.matrix, c.term_pos, c.term_neg,
              c.current_index, One, RNeg(One), Zero),
          add_rhs_group2(mna.rhs, c.current_index, c.voltage), mna.rhs)

\* Faulty variant: the control terminals' coefficients exchanged (k at ctrl_pos)
stamp_vcvs_signs_exchanged(mna, c) ==
    LET s1 == add_symmetric_group2(mna.matrix, c.term_pos, c.term_neg,
                  c.current_index, One, RNeg(One), Zero)
    IN  IF s1.err # "" THEN After(s1, mna.rhs, mna.rhs)
        ELSE After(add_unsymmetric_bottom_group2(s1.m, c.ctrl_pos,
                       c.ctrl_neg, c.current_index,
                       c.voltage_scale, RNeg(c.voltage_scale), Zero),
                   mna.rhs, mna.rhs)

stamp_voltage_controlled_voltage_source(mna, c) ==
    LET s1 == add_symmetric_group2(mna.matrix, c.term_pos, c.term_neg,
                  c.current_index, One, RNeg(One), Zero)
    IN  IF s1.err # "" THEN After(s1, mna.rhs, mna.rhs)
        ELSE After(add_unsymmetric_bottom_group2(s1.m, c.ctrl_pos,
                       c.ctrl_neg, c.current_index,
                       RNeg(c.voltage_scale), c.voltage_scale, Zero),
                   mna.rhs, mna.rhs)

stamp_current_controlled_voltage_source(mna, c) ==
    LET s1 == add_symmetric_group2(mna.matrix, c.term_pos, c.term_neg,
                  c.current_index, One, RNeg(One), Zero)
    IN  IF s1.err # "" THEN After(s1, mna.rhs, mna.rhs)
        ELSE After(add_group2_value(s1.m, c.current_index, c.ctrl_edge,
                       RNeg(c.voltage_scale)),
                   mna.rhs, mna.rhs)

\* Faulty variant: the branchless source's signs exchanged (+I at term_pos)
stamp_current_source_signs_exchanged(mna, c) ==
    IF c.current_index # None THEN
        After(add_unsymmetric_right_group2(mna.matrix, c.term_pos,
                  c.term_neg, c.current_index[1], One, RNeg(One), One),
              add_rhs_group2(mna.rhs, c.current_index[1], c.current),
              mna.rhs)
    ELSE
        Done(mna.matrix,
             add_rhs_group1(
                 add_rhs_group1(mna.rhs, c.term_pos, c.current),
                 c.term_neg, RNeg(c.current)))

stamp_independent_current_source(mna, c) ==
    IF c.current_index # None THEN
        After(add_unsymmetric_right_group2(mna.matrix, c.term_pos,
                  c.term_neg, c.current_index[1], One, RNeg(One), One),
              add_rhs_group2(mna.rhs, c.current_index[1], c.current),
              mna.rhs)
    ELSE
        Done(mna.matrix,
             add_rhs_group1(
                 add_rhs_group1(mna.rhs, c.term_pos, RNeg(c.current)),
                 c.term_neg, c.current))

\* Faulty variant: a component without a stamp rule is skipped silently
stamp_unsupported_skipped(mna, c) == Done(mna.matrix, mna.rhs)

\* todo!("Not currently implemented")
stamp_unsupported(mna, c) ==
    [matrix |-> mna.matrix, rhs |-> mna.rhs,
     err |-> "not yet implemented: Not currently implemented"]

add_element_stamp(mna, component) ==
    CASE component.kind = "Resistor" ->
            stamp_resistor(mna, component)
      [] component.kind = "IndependentVoltageSource" ->
            stamp_independent_voltage_source(mna, component)
      [] component.kind = "VoltageControlledVoltageSource" ->
            stamp_voltage_controlled_voltage_source(mna, component)
      [] component.kind = "CurrentControlledVoltageSource" ->
            stamp_current_controlled_voltage_source(mna, component)
      [] component.kind = "IndependentCurrentSource" ->
            stamp_independent_current_source(mna, component)
      [] OTHER ->
            stamp_unsupported(mna, component)

\* the assembled system of a run that has not produced one
NoSystem == [matrix |-> resize(SparseEmpty, 0, 0), rhs |-> << >>]

get_system(mna) ==
    LET num_voltage_nodes == mna.matrix.num_voltage_nodes
        num_current_edges == mna.matrix.num_current_edges
        mat == get_matrix(mna.matrix)
        v == get_vector(mna.rhs, num_voltage_nodes, num_current_edges)
    IN  IF v.err # "" THEN [system |-> NoSystem, err |-> v.err]
        ELSE [system |-> [matrix |-> mat, rhs |-> v.out], err |-> ""]

\* ------------------------------------------------------------------------
\* State
\* ------------------------------------------------------------------------
VARIABLES
    matrix,      \* Mna.matrix: the MnaMatrix
    rhs,         \* Mna.rhs: the MnaRhs
    pc,          \* "building", "panicked" or "finalized" (builders consumed)
    err,         \* the panic message of the last call, "" if it returned
    system,      \* what get_system / get_matrix returned
    last,        \* history: the last call and its arguments
    pre,         \* history: both builders before the last call
    nstamps,     \* history: number of stamp calls made
    seen_node,   \* history: largest node index given to a matrix stamp that returned
    seen_edges,  \* history: 1 + largest branch index given to such a stamp, 0 if none
    hist         \* history: the stamp calls made on the MnaRhs directly, in order

vars == << matrix, rhs, pc, err, system, last, pre, nstamps, seen_node, seen_edges, hist >>

NoCall == [kind |-> "none"]

Init ==
    /\ matrix = Mna_new.matrix
    /\ rhs = Mna_new.rhs
    /\ pc = "building"
    /\ err = ""
    /\ system = NoSystem
    /\ last = NoCall
    /\ pre = Mna_new
    /\ nstamps = 0
    /\ seen_node = 0
    /\ seen_edges = 0
    /\ hist = << >>

SetMax(S) == IF S = {} THEN 0 ELSE CHOOSE x \in S : \A y \in S : y <= x

\* ------------------------------------------------------------------------
\* The orchestrator: Mna::add_element_stamp and Mna::get_system
\* ------------------------------------------------------------------------

\* node and branch indices that add_element_stamp(c) hands to matrix stamps
\* that return, given its result r
StampedNodes(c, r) ==
    CASE c.kind = "Resistor" ->
            IF r.err = "" THEN {c.term_1, c.term_2} ELSE {}
      [] c.kind = "IndependentVoltageSource" ->
            IF r.err = "" THEN {c.term_pos, c.term_neg} ELSE {}
      [] c.kind = "VoltageControlledVoltageSource" ->
            (IF c.term_pos # c.term_neg THEN {c.term_pos, c.term_neg} ELSE {})
            \cup (IF r.err = "" THEN {c.ctrl_pos, c.ctrl_neg} ELSE {})
      [] c.kind = "CurrentControlledVoltageSource" ->
            IF r.err = "" THEN {c.term_pos, c.term_neg} ELSE {}
      [] c.kind = "IndependentCurrentSource" ->
            IF r.err = "" /\ c.current_index # None
            THEN {c.term_pos, c.term_neg} ELSE {}
      [] OTHER -> {}

StampedEdges(c, r) ==
    CASE c.kind = "Resistor" ->
            IF r.err = "" /\ c.current_index # None THEN {c.current_index[1]} ELSE {}
      [] c.kind = "IndependentVoltageSource" ->
            IF r.err = "" THEN {c.current_index} ELSE {}
      [] c.kind = "VoltageControlledVoltageSource" ->
            IF c.term_pos # c.term_neg THEN {c.current_index} ELSE {}
      [] c.kind = "CurrentControlledVoltageSource" ->
            IF r.err = "" THEN {c.current_index, c.ctrl_edge} ELSE {}
      [] c.kind = "IndependentCurrentSource" ->
            IF r.err = "" /\ c.current_index # None THEN {c.current_index[1]} ELSE {}
      [] OTHER -> {}

AddElementStamp(c, max) ==
    /\ pc = "building"
    /\ nstamps < max
    /\ \E r \in {add_element_stamp([matrix |-> matrix, rhs |-> rhs], c)} :
           /\ matrix' = r.matrix
           /\ rhs' = r.rhs
           /\ err' = r.err
           /\ pc' = IF r.err = "" THEN "building" ELSE "panicked"
           /\ seen_node' = Max(seen_node, SetMax(StampedNodes(c, r)))
           /\ seen_edges' = Max(seen_edges, SetMax({e + 1 : e \in StampedEdges(c, r)}))
    /\ last' = c
    /\ pre' = [matrix |-> matrix, rhs |-> rhs]
    /\ nstamps' = nstamps + 1
    /\ UNCHANGED << system, hist >>

\* Faulty variant: get_system(&self) borrows the orchestrator instead of
\* consuming it, so it stays usable after the call
GetSystem_borrowing ==
    /\ pc = "building"
    /\ \E r \in {get_system([matrix |-> matrix, rhs |-> rhs])} :
           /\ system' = r.system
           /\ err' = r.err
           /\ pc' = IF r.err = "" THEN "building" ELSE "panicked"
    /\ last' = [kind |-> "get_system"]
    /\ pre' = [matrix |-> matrix, rhs |-> rhs]
    /\ UNCHANGED << matrix, rhs, nstamps, seen_node, seen_edges, hist >>

\* get_system(self) consumes the orchestrator: nothing can be called on it
\* afterwards (pc leaves "building")
GetSystem ==
    /\ pc = "building"
    /\ \E r \in {get_system([matrix |-> matrix, rhs |-> rhs])} :
           /\ system' = r.system
           /\ err' = r.err
           /\ pc' = IF r.err = "" THEN "finalized" ELSE "panicked"
    /\ last' = [kind |-> "get_system"]
    /\ pre' = [matrix |-> matrix, rhs |-> rhs]
    /\ UNCHANGED << matrix, rhs, nstamps, seen_node, seen_edges, hist >>

Next ==
    \/ \E c \in Components : AddElementStamp(c, MaxElements)
    \/ GetSystem

Spec == Init /\ [][Next]_vars

\* circuits of nodal components only, which stay small enough to run longer
NextNodal ==
    \/ \E c \in NodalComponents : AddElementStamp(c, MaxStamps)
    \/ GetSystem

SpecNodal == Init /\ [][NextNodal]_vars

\* ------------------------------------------------------------------------
\* The matrix builder driven directly through its public stamp methods
\* ------------------------------------------------------------------------

\* (x1, x2) of a group-1 stamp and (x1, x2, y) of a group-2 stamp
Group1Values == { << Num(1), Num(-1) >>, << Num(3), Num(5) >> }
Group2Values == { << Num(1), Num(-2), Num(3) >> }
BranchValues == { Num(-2) }

\* a matrix stamp call with result res
MatrixStamp(call, res, nodes, edges) ==
    /\ pc = "building"
    /\ nstamps < MaxStamps
    /\ \E s \in {res} :
           /\ matrix' = s.m
           /\ err' = s.err
           /\ pc' = IF s.err = "" THEN "building" ELSE "panicked"
           /\ seen_node' = IF s.err = "" THEN Max(seen_node, SetMax(nodes))
                           ELSE seen_node
           /\ seen_edges' = IF s.err = "" THEN Max(seen_edges, SetMax({e + 1 : e \in edges}))
                            ELSE seen_edges
    /\ last' = call
    /\ pre' = [matrix |-> matrix, rhs |-> rhs]
    /\ nstamps' = nstamps + 1
    /\ UNCHANGED << rhs, system, hist >>

AddSymmetricGroup1 ==
    \E n1 \in Nodes, n2 \in Nodes, x \in Group1Values :
        MatrixStamp([kind |-> "add_symmetric_group1", n1 |-> n1, n2 |-> n2,
                     x1 |-> x[1], x2 |-> x[2]],
                    add_symmetric_group1(matrix, n1, n2, x[1], x[2]),
                    {n1, n2}, {})

AddSymmetricGroup2 ==
    \E n1 \in Nodes, n2 \in Nodes, e \in Edges, x \in Group2Values :
        MatrixStamp([kind |-> "add_symmetric_group2", n1 |-> n1, n2 |-> n2,
                     e |-> e, x1 |-> x[1], x2 |-> x[2], y |-> x[3]],
                    add_symmetric_group2(matrix, n1, n2, e, x[1], x[2], x[3]),
                    {n1, n2}, {e})

AddUnsymmetricRightGroup2 ==
    \E n1 \in Nodes, n2 \in Nodes, e \in Edges, x \in Group2Values :
        MatrixStamp([kind |-> "add_unsymmetric_right_group2", n1 |-> n1, n2 |-> n2,
                     e |-> e, x1 |-> x[1], x2 |-> x[2], y |-> x[3]],
                    add_unsymmetric_right_group2(matrix, n1, n2, e, x[1], x[2], x[3]),
                    {n1, n2}, {e})

AddUnsymmetricBottomGroup2 ==
    \E n1 \in Nodes, n2 \in Nodes, e \in Edges, x \in Group2Values :
        MatrixStamp([kind |-> "add_unsymmetric_bottom_group2", n1 |-> n1, n2 |-> n2,
                     e |-> e, x1 |-> x[1], x2 |-> x[2], y |-> x[3]],
                    add_unsymmetric_bottom_group2(matrix, n1, n2, e, x[1], x[2], x[3]),
                    {n1, n2}, {e})

AddGroup2Value ==
    \E e1 \in Edges, e2 \in Edges, y \in BranchValues :
        MatrixStamp([kind |-> "add_group2_value", e1 |-> e1, e2 |-> e2, y |-> y],
                    add_group2_value(matrix, e1, e2, y),
                    {}, {e1, e2})

GetMatrix ==
    /\ pc = "building"
    /\ system' = [matrix |-> get_matrix(matrix), rhs |-> << >>]
    /\ err' = ""
    /\ pc' = "finalized"
    /\ last' = [kind |-> "get_matrix"]
    /\ pre' = [matrix |-> matrix, rhs |-> rhs]
    /\ UNCHANGED << matrix, rhs, nstamps, seen_node, seen_edges, hist >>

NextMatrix ==
    \/ AddSymmetricGroup1
    \/ AddSymmetricGroup2
    \/ AddUnsymmetricRightGroup2
    \/ AddUnsymmetricBottomGroup2
    \/ AddGroup2Value
    \/ GetMatrix

SpecMatrix == Init /\ [][NextMatrix]_vars

\* the matrix builder under its two symmetric stamps only (what circuits of
\* resistors and independent voltage sources use)
NextSymmetric ==
    \/ AddSymmetricGroup1
    \/ AddSymmetricGroup2

SpecSymmetric == Init /\ [][NextSymmetric]_vars

\* ------------------------------------------------------------------------
\* The excitation-vector builder driven directly through its public methods
\* ------------------------------------------------------------------------
RhsValues == { Num(3), Num(4) }

\* a stamp call on the MnaRhs; neither stamp can fail
RhsStamp(call, res) ==
    /\ pc = "building"
    /\ nstamps < MaxStamps
    /\ rhs' = res
    /\ err' = ""
    /\ pc' = "building"
    /\ last' = call
    /\ pre' = [matrix |-> matrix, rhs |-> rhs]
    /\ nstamps' = nstamps + 1
    /\ hist' = Append(hist, call)
    /\ UNCHANGED << matrix, system, seen_node, seen_edges >>

AddRhsGroup1 ==
    \E n \in Nodes, x \in RhsValues :
        RhsStamp([kind |-> "add_rhs_group1", index |-> n, x |-> x],
                 add_rhs_group1(rhs, n, x))

AddRhsGroup2 ==
    \E e \in Edges, x \in RhsValues :
        RhsStamp([kind |-> "add_rhs_group2", index |-> e, x |-> x],
                 add_rhs_group2(rhs, e, x))

\* get_vector(self, num_voltage_nodes, num_current_edges): the caller names
\* both dimensions
GetVector ==
    /\ pc = "building"
    /\ \E N \in 0..MaxNode, E \in 0..(MaxEdge + 1) :
         \E r \in {get_vector(rhs, N, E)} :
           /\ system' = [matrix |-> NoSystem.matrix, rhs |-> r.out]
           /\ err' = r.err
           /\ pc' = IF r.err = "" THEN "finalized" ELSE "panicked"
           /\ last' = [kind |-> "get_vector", num_voltage_nodes |-> N,
                       num_current_edges |-> E]
    /\ pre' = [matrix |-> matrix, rhs |-> rhs]
    /\ UNCHANGED << matrix, rhs, nstamps, seen_node, seen_edges, hist >>

NextRhs ==
    \/ AddRhsGroup1
    \/ AddRhsGroup2
    \/ GetVector

SpecRhs == Init /\ [][NextRhs]_vars

\* ------------------------------------------------------------------------
\* Properties
\* ------------------------------------------------------------------------
Here == [matrix |-> matrix, rhs |-> rhs]
Builders(r) == [matrix |-> r.matrix, rhs |-> r.rhs]
IsComponent(c) == c.kind \notin {"none", "get_system", "get_matrix"}

\* new = old with adds[k] added at every key k of adds, cell by cell
BlockIs(new, old, adds) ==
    \A k \in (DOMAIN new) \cup (DOMAIN old) \cup (DOMAIN adds) :
        get_unbounded(new, k[1], k[2]) =
            RAdd(get_unbounded(old, k[1], k[2]),
                 IF k \in DOMAIN adds THEN adds[k] ELSE Zero)

\* C1 (as claimed): order independence.  Whenever a component has just been
\* stamped, stamping any further component d after it assembles, through
\* get_system, to the same matrix and the same vector as stamping d before
\* it (both orders stamping successfully).  Exchanging neighbours generates
\* every permutation.
C1_OrderIndependence ==
    (pc = "building" /\ IsComponent(last) /\ err = "") =>
        \A d \in Components :
            LET ab == add_element_stamp(Here, d)
                b0 == add_element_stamp(pre, d)
                ba == add_element_stamp(Builders(b0), last)
            IN  (ab.err = "" /\ b0.err = "" /\ ba.err = "") =>
                    get_system(Builders(ab)) = get_system(Builders(ba))

\* C2: accumulation law.  After stampNodeNode(a, b, g1, -g1) has returned,
\* a further stampNodeNode(a, b, g2, -g2) leaves the builder (four blocks and
\* both counters) exactly as the single stamp stampNodeNode(a, b, g1 + g2,
\* -(g1 + g2)) applied to the builder before the first stamp does.
Conductances == {Num(1), Num(2), Num(-1), Num(-2)}

C2_AccumulationLaw ==
    (last.kind = "add_symmetric_group1" /\ err = "" /\ last.x2 = RNeg(last.x1)) =>
        \A g2 \in Conductances :
            LET g1 == last.x1
                two == add_symmetric_group1(matrix, last.n1, last.n2, g2, RNeg(g2))
                one == add_symmetric_group1(pre.matrix, last.n1, last.n2,
                           RAdd(g1, g2), RNeg(RAdd(g1, g2)))
            IN  two = one

\* the first stamp lands on cells that already hold a value
C2_Witness ==
    /\ last.kind = "add_symmetric_group1" /\ err = ""
    /\ last.x2 = RNeg(last.x1)
    /\ last.n1 > 0 /\ last.n2 > 0
    /\ get_unbounded(pre.matrix.top_left, last.n1 - 1, last.n2 - 1) # Zero
    /\ get_unbounded(pre.matrix.top_left, last.n1 - 1, last.n1 - 1) # Zero

\* C3: equal terminals are rejected.  A call of add_symmetric_group1,
\* add_symmetric_group2, add_unsymmetric_right_group2 or
\* add_unsymmetric_bottom_group2 with n1 = n2 panics and leaves both counters
\* and all four blocks as they were.
TerminalStamps ==
    {"add_symmetric_group1", "add_symmetric_group2",
     "add_unsymmetric_right_group2", "add_unsymmetric_bottom_group2"}

C3_EqualTerminalsRejected ==
    (last.kind \in TerminalStamps /\ last.n1 = last.n2) =>
        /\ err # ""
        /\ pc = "panicked"
        /\ matrix = pre.matrix

C3_Witness ==
    /\ last.kind = "add_unsymmetric_bottom_group2"
    /\ last.n1 = 0 /\ last.n2 = 0
    /\ err # ""
    /\ pre.matrix # MnaMatrix_new

\* C4 (as claimed): after stamps that each succeeded, get_system completes
\* and returns a square matrix of side num_voltage_nodes + num_current_edges
\* and a vector of that length.
C4_DimensionConsistency ==
    (last.kind = "get_system") =>
        LET side == matrix.num_voltage_nodes + matrix.num_current_edges
        IN  /\ err = ""
            /\ pc = "finalized"
            /\ system.matrix.num_rows = side
            /\ system.matrix.num_cols = side
            /\ Len(system.rhs) = side

\* C5: ground elision.  No block ever holds a cell with a negative row or
\* column (the index n - 1 of node 0), and add_symmetric_group1 with exactly
\* one terminal 0 and the other a > 0 changes top-left (a-1, a-1) by x1 and
\* nothing else.
Blocks(m) == {m.top_left, m.top_right, m.bottom_left, m.bottom_right}

C5_GroundElision ==
    /\ \A b \in Blocks(matrix) : \A k \in DOMAIN b : k[1] >= 0 /\ k[2] >= 0
    /\ (/\ last.kind = "add_symmetric_group1"
        /\ last.n1 # last.n2
        /\ (last.n1 = 0 \/ last.n2 = 0)) =>
            LET a == Max(last.n1, last.n2)
            IN  /\ err = ""
                /\ BlockIs(matrix.top_left, pre.matrix.top_left,
                           (<< a - 1, a - 1 >> :> last.x1))
                /\ matrix.top_right = pre.matrix.top_right
                /\ matrix.bottom_left = pre.matrix.bottom_left
                /\ matrix.bottom_right = pre.matrix.bottom_right

C5_Witness ==
    /\ last.kind = "add_symmetric_group1"
    /\ last.n1 = 0 /\ last.n2 = 2
    /\ last.x2 # RNeg(last.x1)
    /\ err = ""
    /\ get_unbounded(pre.matrix.top_left, 1, 1) # Zero

\* C6: resistor stamp between two non-ground nodes.  add_symmetric_group1(a,
\* b, g, -g) with a # b, a > 0, b > 0 adds g to top-left (a-1, a-1) and
\* (b-1, b-1), adds -g to (a-1, b-1) and (b-1, a-1), and changes no other
\* cell of any block.
C6_ResistorStamp ==
    (/\ last.kind = "add_symmetric_group1"
     /\ last.n1 # last.n2 /\ last.n1 > 0 /\ last.n2 > 0
     /\ last.x2 = RNeg(last.x1)) =>
        LET a == last.n1
            b == last.n2
            g == last.x1
        IN  /\ err = ""
            /\ BlockIs(matrix.top_left, pre.matrix.top_left,
                       (<< a - 1, a - 1 >> :> g) @@ (<< b - 1, b - 1 >> :> g)
                       @@ (<< a - 1, b - 1 >> :> RNeg(g))
                       @@ (<< b - 1, a - 1 >> :> RNeg(g)))
            /\ matrix.top_right = pre.matrix.top_right
            /\ matrix.bottom_left = pre.matrix.bottom_left
            /\ matrix.bottom_right = pre.matrix.bottom_right

C6_Witness ==
    /\ last.kind = "add_symmetric_group1"
    /\ last.n1 = 2 /\ last.n2 = 1
    /\ last.x2 = RNeg(last.x1)
    /\ err = ""
    /\ get_unbounded(pre.matrix.top_left, 0, 1) # Zero

\* C7: dispatch table conformance.  For every component kind that carries a
\* branch unknown e, add_element_stamp leaves both builders exactly as the
\* listed stamps, made in the listed order up to the first one that fails,
\* leave them, and fails exactly when one of them fails:
\*   resistor with branch   stampBranchCoupling(t1, t2, e, 1, -1, -R)
\*   voltage source         stampBranchCoupling(pos, neg, e, 1, -1, 0), group-2 (e, V)
\*   VCVS                   stampBranchCoupling(pos, neg, e, 1, -1, 0),
\*                          stampBranchCouplingBottomOnly(ctrlPos, ctrlNeg, e, -k, k, 0)
\*   CCVS                   stampBranchCoupling(pos, neg, e, 1, -1, 0),
\*                          stampBranchBranch(e, ctrlEdge, -k)
\*   current source, branch stampBranchCouplingRightOnly(pos, neg, e, 1, -1, 1),
\*                          group-2 (e, I)
Coupling(name, n1, n2, e, x1, x2, y) ==
    [stamp |-> name, n1 |-> n1, n2 |-> n2, e |-> e, x1 |-> x1, x2 |-> x2, y |-> y]

HasBranch(c) ==
    \/ c.kind \in {"IndependentVoltageSource", "VoltageControlledVoltageSource",
                   "CurrentControlledVoltageSource"}
    \/ c.kind \in {"Resistor", "IndependentCurrentSource"} /\ c.current_index # None

TableMatrixStamps(c) ==
    CASE c.kind = "Resistor" ->
            << Coupling("stampBranchCoupling", c.term_1, c.term_2, c.current_index[1],
                        Num(1), Num(-1), RNeg(c.resistance)) >>
      [] c.kind = "IndependentVoltageSource" ->
            << Coupling("stampBranchCoupling", c.term_pos, c.term_neg, c.current_index,
                        Num(1), Num(-1), Num(0)) >>
      [] c.kind = "VoltageControlledVoltageSource" ->
            << Coupling("stampBranchCoupling", c.term_pos, c.term_neg, c.current_index,
                        Num(1), Num(-1), Num(0)),
               Coupling("stampBranchCouplingBottomOnly", c.ctrl_pos, c.ctrl_neg,
                        c.current_index, RNeg(c.voltage_scale), c.voltage_scale, Num(0)) >>
      [] c.kind = "CurrentControlledVoltageSource" ->
            << Coupling("stampBranchCoupling", c.term_pos, c.term_neg, c.current_index,
                        Num(1), Num(-1), Num(0)),
               [stamp |-> "stampBranchBranch", e1 |-> c.current_index,
                e2 |-> c.ctrl_edge, y |-> RNeg(c.voltage_scale)] >>
      [] c.kind = "IndependentCurrentSource" ->
            << Coupling("stampBranchCouplingRightOnly", c.term_pos, c.term_neg,
                        c.current_index[1], Num(1), Num(-1), Num(1)) >>

TableVectorStamps(c) ==
    CASE c.kind = "IndependentVoltageSource" -> << << c.current_index, c.voltage >> >>
      [] c.kind = "IndependentCurrentSource" -> << << c.current_index[1], c.current >> >>
      [] OTHER -> << >>

ApplyStamp(m, t) ==
    CASE t.stamp = "stampBranchCoupling" ->
            add_symmetric_group2(m, t.n1, t.n2, t.e, t.x1, t.x2, t.y)
      [] t.stamp = "stampBranchCouplingBottomOnly" ->
            add_unsymmetric_bottom_group2(m, t.n1, t.n2, t.e, t.x1, t.x2, t.y)
      [] t.stamp = "stampBranchCouplingRightOnly" ->
            add_unsymmetric_right_group2(m, t.n1, t.n2, t.e, t.x1, t.x2, t.y)
      [] t.stamp = "stampBranchBranch" ->
            add_group2_value(m, t.e1, t.e2, t.y)

RECURSIVE RunMatrixStamps(_, _)
RunMatrixStamps(m, ts) ==
    IF ts = << >> THEN Returned(m)
    ELSE LET s == ApplyStamp(m, Head(ts))
         IN  IF s.err # "" THEN s ELSE RunMatrixStamps(s.m, Tail(ts))

RECURSIVE RunVectorStamps(_, _)
RunVectorStamps(r, vs) ==
    IF vs = << >> THEN r
    ELSE RunVectorStamps(add_rhs_group2(r, Head(vs)[1], Head(vs)[2]), Tail(vs))

C7_DispatchTable ==
    (IsComponent(last) /\ last.kind # "Other" /\ HasBranch(last)) =>
        LET s == RunMatrixStamps(pre.matrix, TableMatrixStamps(last))
        IN  /\ matrix = s.m
            /\ (err = "") <=> (s.err = "")
            /\ rhs = IF s.err = "" THEN RunVectorStamps(pre.rhs, TableVectorStamps(last))
                     ELSE pre.rhs

C7_Witness ==
    /\ last.kind = "CurrentControlledVoltageSource"
    /\ last.ctrl_edge # last.current_index
    /\ last.term_pos > 0 /\ last.term_neg > 0
    /\ err = ""
    /\ get_unbounded(matrix.bottom_right, last.current_index, last.ctrl_edge)
           = RNeg(last.voltage_scale)

\* C8: branchless current source.  An independent current source of value I
\* without a branch unknown leaves the matrix builder and the bottom column
\* alone and writes only the top column: I at the row of a non-ground neg
\* node and -I at the row of a non-ground pos node other than neg.  A run
\* whose builders are those of a resistor R between node 1 and ground plus a
\* current source I from ground into node 1 (pos = 0, neg = 1) assembles to
\* the 1x1 matrix [1/R] and the vector [I].
TopRow(r, n) == get_unbounded(r.top, n - 1, 1)

EndToEndBuilders(r, i) ==
    { Builders(add_element_stamp(Builders(add_element_stamp(Mna_new, a)), b)) :
        << a, b >> \in
            { << Resistor(t[1], t[2], None, r), IndependentCurrentSource(0, 1, None, i) >> :
                t \in {<< 1, 0 >>, << 0, 1 >>} }
            \cup
            { << IndependentCurrentSource(0, 1, None, i), Resistor(t[1], t[2], None, r) >> :
                t \in {<< 1, 0 >>, << 0, 1 >>} } }

C8_BranchlessCurrentSource ==
    /\ (last.kind = "IndependentCurrentSource" /\ last.current_index = None) =>
            /\ err = ""
            /\ matrix = pre.matrix
            /\ rhs.bottom = pre.rhs.bottom
            /\ DOMAIN rhs.top =
                   (DOMAIN pre.rhs.top)
                   \cup {<< n - 1, 1 >> : n \in {last.term_pos, last.term_neg} \ {0}}
            /\ \A n \in 1..MaxNode :
                   TopRow(rhs, n) =
                       IF n = last.term_neg THEN last.current
                       ELSE IF n = last.term_pos THEN RNeg(last.current)
                       ELSE TopRow(pre.rhs, n)
    /\ \A r \in Resistances, i \in Currents :
           (last.kind = "get_system" /\ pre \in EndToEndBuilders(r, i)) =>
               /\ err = ""
               /\ system.matrix.num_rows = 1 /\ system.matrix.num_cols = 1
               /\ DOMAIN system.matrix.vals = {<< 0, 0 >>}
               /\ LET g == Cell(system.matrix, 0, 0)
                  IN  g[1] * r[1] = g[2] * r[2]      \* g * R = 1
               /\ system.rhs = << i >>

C8_Witness ==
    /\ last.kind = "get_system"
    /\ err = ""
    /\ \E r \in Resistances, i \in Currents : pre \in EndToEndBuilders(r, i)
    /\ Len(system.rhs) = 1

\* C9: dimension tracking.  num_voltage_nodes is the largest node index given
\* as a terminal to a matrix stamp so far and num_current_edges is 1 + the
\* largest branch index given to one (0 if none), counting the stamps that
\* were not rejected; no stamp decreases either counter.
C9_DimensionTracking ==
    /\ matrix.num_voltage_nodes = seen_node
    /\ matrix.num_current_edges = seen_edges
    /\ matrix.num_voltage_nodes >= pre.matrix.num_voltage_nodes
    /\ matrix.num_current_edges >= pre.matrix.num_current_edges

\* a stamp of lower indices after one of the highest
C9_Witness ==
    /\ last.kind = "add_symmetric_group2"
    /\ err = ""
    /\ last.n1 = 0 /\ last.n2 = 1 /\ last.e = 0
    /\ matrix.num_voltage_nodes = 2
    /\ matrix.num_current_edges = 2

\* C10: unsupported component kind.  add_element_stamp of a component
\* without a stamp rule fails with the "not yet implemented" panic, which no
\* other call raises, and leaves both builders unchanged.
Unsupported == "not yet implemented: Not currently implemented"

C10_UnsupportedKind ==
    /\ (last.kind = "Other") =>
            /\ err = Unsupported
            /\ pc = "panicked"
            /\ matrix = pre.matrix
            /\ rhs = pre.rhs
    /\ (last.kind # "Other") => err # Unsupported

C10_Witness ==
    /\ last.kind = "Other"
    /\ pc = "panicked"
    /\ pre.matrix # MnaMatrix_new

\* C11: finalize-once lifecycle.  Every call, stamp or get_system, is made on
\* an orchestrator whose builders have not been consumed, and get_system
\* consumes them: get_system happens at most once in a run and no stamp
\* follows it.
Finalizers == {"get_system", "get_matrix", "get_vector"}

C11_FinalizeOnce ==
    [][/\ pc = "building"
       /\ (last'.kind \in Finalizers) => (pc' # "building")]_vars

\* get_system has returned after a component was stamped
C11_Witness ==
    /\ pc = "finalized"
    /\ last.kind = "get_system"
    /\ nstamps > 0
    /\ system.matrix.num_rows > 0

\* the cells a coupling stamp adds to in the top-right block: x1 at
\* (n1 - 1, e) and x2 at (n2 - 1, e), a ground terminal adding nothing
RightAdds(n1, n2, e, x1, x2) ==
    [k \in {<< n - 1, e >> : n \in {n1, n2} \ {0}} |->
        IF k[1] = n1 - 1 THEN x1 ELSE x2]

\* and in the bottom-left block: x1 at (e, n1 - 1) and x2 at (e, n2 - 1)
BottomAdds(n1, n2, e, x1, x2) ==
    [k \in {<< e, n - 1 >> : n \in {n1, n2} \ {0}} |->
        IF k[2] = n1 - 1 THEN x1 ELSE x2]

DiagAdds(e, y) == (<< e, e >> :> y)

\* C12 (as claimed): the directional coupling stamps are block-exclusive.
\* add_unsymmetric_right_group2 with n1 # n2 adds x1 at top-right (n1-1, e)
\* and x2 at top-right (n2-1, e) and leaves the other three blocks as they
\* were; add_unsymmetric_bottom_group2 adds x1 at bottom-left (e, n1-1) and
\* x2 at bottom-left (e, n2-1) and leaves the other three blocks as they were.
C12_BlockExclusive ==
    /\ (last.kind = "add_unsymmetric_right_group2" /\ last.n1 # last.n2) =>
            /\ err = ""
            /\ BlockIs(matrix.top_right, pre.matrix.top_right,
                       RightAdds(last.n1, last.n2, last.e, last.x1, last.x2))
            /\ matrix.top_left = pre.matrix.top_left
            /\ matrix.bottom_left = pre.matrix.bottom_left
            /\ matrix.bottom_right = pre.matrix.bottom_right
    /\ (last.kind = "add_unsymmetric_bottom_group2" /\ last.n1 # last.n2) =>
            /\ err = ""
            /\ BlockIs(matrix.bottom_left, pre.matrix.bottom_left,
                       BottomAdds(last.n1, last.n2, last.e, last.x1, last.x2))
            /\ matrix.top_left = pre.matrix.top_left
            /\ matrix.top_right = pre.matrix.top_right
            /\ matrix.bottom_right = pre.matrix.bottom_right

\* C12 (amended): each directional stamp also adds y to bottom-right (e, e).
\* add_unsymmetric_right_group2 changes only the right-hand blocks (top-right
\* as above, bottom-right (e, e) by y) and add_unsymmetric_bottom_group2 only
\* the bottom blocks (bottom-left as above, bottom-right (e, e) by y); the
\* two remaining blocks are left as they were.
C12_DirectionalStamps ==
    /\ (last.kind = "add_unsymmetric_right_group2" /\ last.n1 # last.n2) =>
            /\ err = ""
            /\ BlockIs(matrix.top_right, pre.matrix.top_right,
                       RightAdds(last.n1, last.n2, last.e, last.x1, last.x2))
            /\ BlockIs(matrix.bottom_right, pre.matrix.bottom_right,
                       DiagAdds(last.e, last.y))
            /\ matrix.top_left = pre.matrix.top_left
            /\ matrix.bottom_left = pre.matrix.bottom_left
    /\ (last.kind = "add_unsymmetric_bottom_group2" /\ last.n1 # last.n2) =>
            /\ err = ""
            /\ BlockIs(matrix.bottom_left, pre.matrix.bottom_left,
                       BottomAdds(last.n1, last.n2, last.e, last.x1, last.x2))
            /\ BlockIs(matrix.bottom_right, pre.matrix.bottom_right,
                       DiagAdds(last.e, last.y))
            /\ matrix.top_left = pre.matrix.top_left
            /\ matrix.top_right = pre.matrix.top_right

\* a right-only stamp with y # 0 on a builder whose four blocks all hold
\* values already
C12_Witness ==
    /\ last.kind = "add_unsymmetric_right_group2"
    /\ err = ""
    /\ last.n1 > 0 /\ last.n2 > 0
    /\ last.y # Zero
    /\ pre.matrix.bottom_left # SparseEmpty
    /\ get_unbounded(pre.matrix.top_right, last.n1 - 1, last.e) # Zero
    /\ get_unbounded(pre.matrix.bottom_right, last.e, last.e) # Zero

\* C13: symmetric branch coupling.  add_symmetric_group2 with n1 # n2 adds y
\* to bottom-right (e, e) whatever the terminals; adds x1 to top-right
\* (n1-1, e) and bottom-left (e, n1-1) if n1 # 0; adds x2 to top-right
\* (n2-1, e) and bottom-left (e, n2-1) if n2 # 0; changes no other cell and
\* leaves the top-left block as it was.
C13_SymmetricCoupling ==
    (last.kind = "add_symmetric_group2" /\ last.n1 # last.n2) =>
        /\ err = ""
        /\ BlockIs(matrix.bottom_right, pre.matrix.bottom_right,
                   DiagAdds(last.e, last.y))
        /\ BlockIs(matrix.top_right, pre.matrix.top_right,
                   RightAdds(last.n1, last.n2, last.e, last.x1, last.x2))
        /\ BlockIs(matrix.bottom_left, pre.matrix.bottom_left,
                   BottomAdds(last.n1, last.n2, last.e, last.x1, last.x2))
        /\ matrix.top_left = pre.matrix.top_left

\* a grounded coupling stamp on cells that hold values already
C13_Witness ==
    /\ last.kind = "add_symmetric_group2"
    /\ err = ""
    /\ last.n1 = 0 /\ last.n2 > 0
    /\ get_unbounded(pre.matrix.top_right, last.n2 - 1, last.e) # Zero
    /\ get_unbounded(pre.matrix.bottom_right, last.e, last.e) # Zero
    /\ get_unbounded(pre.matrix.bottom_left, last.e, last.n2 - 1) # Zero

\* C14: excitation vector contents.  When get_vector(N, E) is called after
\* stamps whose nodes are all <= N and whose edges are all < E, it returns a
\* vector of length N + E whose entry n - 1 is the value of the last group-1
\* stamp at node n (n > 0), whose entry N + e is the value of the last
\* group-2 stamp at edge e, and whose other entries are zero; a group-1
\* stamp at node 0 leaves the builder as it was.
Stamped(kind, index) ==
    {i \in 1..Len(hist) : hist[i].kind = kind /\ hist[i].index = index}

\* the value of the last stamp of that kind at that index, zero if none
LastStamped(kind, index) ==
    IF Stamped(kind, index) = {} THEN Zero
    ELSE hist[SetMax(Stamped(kind, index))].x

StampsWithin(N, E) ==
    \A i \in 1..Len(hist) :
        IF hist[i].kind = "add_rhs_group1" THEN hist[i].index <= N
        ELSE hist[i].index < E

C14_VectorContents ==
    /\ (last.kind = "get_vector"
        /\ StampsWithin(last.num_voltage_nodes, last.num_current_edges)) =>
            LET N == last.num_voltage_nodes
                E == last.num_current_edges
            IN  /\ err = ""
                /\ Len(system.rhs) = N + E
                /\ \A n \in 1..N :
                       system.rhs[n] = LastStamped("add_rhs_group1", n)
                /\ \A e \in 0..(E - 1) :
                       system.rhs[N + e + 1] = LastStamped("add_rhs_group2", e)
    /\ (last.kind = "add_rhs_group1" /\ last.index = 0) => rhs = pre.rhs

\* an edge stamped twice with different values, below a node segment that
\* has an unwritten entry
C14_Witness ==
    /\ last.kind = "get_vector"
    /\ err = ""
    /\ last.num_voltage_nodes = 2
    /\ Len(hist) = 2
    /\ hist[1].kind = "add_rhs_group2" /\ hist[2].kind = "add_rhs_group2"
    /\ hist[1].index = hist[2].index
    /\ hist[1].x # hist[2].x
    /\ system.rhs[2 + hist[2].index + 1] = hist[2].x

\* C15: finalize block layout.  With N = num_voltage_nodes and E =
\* num_current_edges, get_matrix returns a square matrix M of side N + E with
\* M(i, j) = top_left(i, j), M(i, N + j) = top_right(i, j), M(N + i, j) =
\* bottom_left(i, j) and M(N + i, N + j) = bottom_right(i, j) wherever the
\* indices are in range, and M stores as many cells as the four blocks
\* together: none is lost, moved or added.
C15_BlockLayout ==
    (last.kind = "get_matrix") =>
        LET N == matrix.num_voltage_nodes
            E == matrix.num_current_edges
            M == system.matrix
        IN  /\ pc = "finalized"
            /\ M.num_rows = N + E
            /\ M.num_cols = N + E
            /\ \A i \in 0..(N - 1), j \in 0..(N - 1) :
                   Cell(M, i, j) = get_unbounded(matrix.top_left, i, j)
            /\ \A i \in 0..(N - 1), j \in 0..(E - 1) :
                   Cell(M, i, N + j) = get_unbounded(matrix.top_right, i, j)
            /\ \A i \in 0..(E - 1), j \in 0..(N - 1) :
                   Cell(M, N + i, j) = get_unbounded(matrix.bottom_left, i, j)
            /\ \A i \in 0..(E - 1), j \in 0..(E - 1) :
                   Cell(M, N + i, N + j) = get_unbounded(matrix.bottom_right, i, j)
            /\ Cardinality(DOMAIN M.vals) =
                   Cardinality(DOMAIN matrix.top_left)
                   + Cardinality(DOMAIN matrix.top_right)
                   + Cardinality(DOMAIN matrix.bottom_left)
                   + Cardinality(DOMAIN matrix.bottom_right)

\* a builder with more nodes than edges and values in all four blocks
C15_Witness ==
    /\ last.kind = "get_matrix"
    /\ matrix.num_voltage_nodes = 2
    /\ matrix.num_current_edges = 1
    /\ matrix.top_left # SparseEmpty
    /\ get_unbounded(matrix.top_right, 1, 0) # Zero
    /\ Cell(system.matrix, 1, 2) = get_unbounded(matrix.top_right, 1, 0)
    /\ Cell(system.matrix, 2, 1) = get_unbounded(matrix.bottom_left, 0, 1)
    /\ Cell(system.matrix, 2, 2) # Zero

\* C16: written indices stay within the tracked dimensions.  In every state
\* of the matrix builder each stored cell of top-left has row and column <
\* num_voltage_nodes, of bottom-right row and column < num_current_edges, of
\* top-right row < num_voltage_nodes and column < num_current_edges, of
\* bottom-left row < num_current_edges and column < num_voltage_nodes; so the
\* resizes of get_matrix drop no cell.
Within(block, rows, cols) ==
    \A k \in non_zero_vals(block) : k[1] < rows /\ k[2] < cols

C16_IndicesWithinDimensions ==
    LET N == matrix.num_voltage_nodes
        E == matrix.num_current_edges
    IN  /\ Within(matrix.top_left, N, N)
        /\ Within(matrix.bottom_right, E, E)
        /\ Within(matrix.top_right, N, E)
        /\ Within(matrix.bottom_left, E, N)
        /\ resize(matrix.top_left, N, N).vals = matrix.top_left
        /\ resize(matrix.bottom_right, E, E).vals = matrix.bottom_right
        /\ resize(matrix.top_right, N, E).vals = matrix.top_right
        /\ resize(matrix.bottom_left, E, N).vals = matrix.bottom_left

\* cells on the last row and column of the blocks, followed by a stamp of
\* lower indices
C16_Witness ==
    /\ last.kind = "add_symmetric_group2"
    /\ err = ""
    /\ last.n1 < 2 /\ last.n2 < 2 /\ last.e = 0
    /\ << 1, 1 >> \in non_zero_vals(matrix.top_right)
    /\ << 1, 1 >> \in non_zero_vals(matrix.bottom_right)
    /\ matrix.num_voltage_nodes = 2
    /\ matrix.num_current_edges = 2

\* C17 (as claimed): failure atomicity of add_element_stamp.  Whenever
\* add_element_stamp fails for a component, the four blocks, both counters
\* and the rhs builder are exactly as they were before the call.
C17_FailureAtomicity ==
    (IsComponent(last) /\ err # "") =>
        /\ matrix = pre.matrix
        /\ rhs = pre.rhs

====
